---- MODULE Spec2Model ----
(***************************************************************************)
(* A model of tldr-bot (src/main.go): the event loop of main, the three    *)
(* handlers handleFollowBack, handleMention and checkForLongPost, the      *)
(* thread walk of fetchThread and the text functions cleanResponse,        *)
(* countWords and extractTextFromHTML.                                     *)
(*                                                                         *)
(* A Go string is a sequence of one-character strings; a markup tag of a   *)
(* status body is one element that starts with "<".                        *)
(***************************************************************************)
EXTENDS Integers, Sequences, FiniteSets, TLC

\* ------------------------------------------------------------------------
\* Characters
\* ------------------------------------------------------------------------

\* regexp's \s: [\t\n\f\r ]
ReSpace == {" ", "\t", "\n", "\f", "\r"}

\* unicode.IsSpace, restricted to the characters a model string can hold
UnicodeSpace == {" ", "\t", "\n", "\f", "\r"}

UpperLetters == <<"A","B","C","D","E","F","G","H","I","J","K","L","M",
                  "N","O","P","Q","R","S","T","U","V","W","X","Y","Z">>

LowerLetters == <<"a","b","c","d","e","f","g","h","i","j","k","l","m",
                  "n","o","p","q","r","s","t","u","v","w","x","y","z">>

\* strings.ToLower on one character
LowerChar(c) ==
    IF \E i \in 1..26 : UpperLetters[i] = c
    THEN LowerLetters[CHOOSE i \in 1..26 : UpperLetters[i] = c]
    ELSE c

\* strings.ToLower
ToLower(s) == [i \in 1..Len(s) |-> LowerChar(s[i])]

\* The marker both the detector and the sanitizer look for
TldrMarker == <<"t", "l", ";", "d", "r">>

\* s holds t at position i (1-based)
HasAt(s, t, i) ==
    /\ i >= 1
    /\ i + Len(t) - 1 <= Len(s)
    /\ \A k \in 1..Len(t) : s[i + k - 1] = t[k]

\* strings.Contains
Contains(s, t) == \E i \in 1..(Len(s) + 1) : HasAt(s, t, i)

\* strings.HasPrefix
HasPrefix(s, t) == HasAt(s, t, 1)

\* The least element of a non-empty set of integers
Least(S) == CHOOSE m \in S : \A n \in S : m <= n

\* The first position >= i of s whose character is not in set (Len(s)+1 when
\* there is none): what a greedy character-class star consumes.
SkipWhile(s, i, set) ==
    Least({ j \in i..Len(s) : s[j] \notin set } \cup {Len(s) + 1})

\* The first position >= i of s whose character is in set (a greedy .* up to
\* the end of the line).
SkipUntil(s, i, set) ==
    Least({ j \in i..Len(s) : s[j] \in set } \cup {Len(s) + 1})

\* ------------------------------------------------------------------------
\* cleanResponse
\* ------------------------------------------------------------------------

\* (?i)tl;dr at position i
TldrAt(s, i) ==
    /\ i >= 1
    /\ i + 4 <= Len(s)
    /\ \A k \in 1..5 : LowerChar(s[i + k - 1]) = TldrMarker[k]

\* tldrRegex (?i)(^|\s)?tl;dr[:\-\s]* matched at position i: the position
\* after the match, 0 when it does not match there.  The optional group is
\* one whitespace character before the label (or the start of the text,
\* which consumes nothing); the class after the label is greedy.
TldrMatchEnd(s, i) ==
    IF TldrAt(s, i)
    THEN SkipWhile(s, i + 5, ReSpace \cup {":", "-"})
    ELSE IF i <= Len(s) /\ s[i] \in ReSpace /\ TldrAt(s, i + 1)
         THEN SkipWhile(s, i + 6, ReSpace \cup {":", "-"})
         ELSE 0

\* tldrRegex.ReplaceAllString(response, ""): the leftmost match at or after
\* i is removed and the search goes on after it, so a label that the
\* removal itself puts together is not seen.
RECURSIVE RemoveTldrFrom(_, _)
RemoveTldrFrom(s, i) ==
    LET starts == { j \in i..Len(s) : TldrMatchEnd(s, j) > 0 }
    IN  IF starts = {} THEN SubSeq(s, i, Len(s))
        ELSE LET j == Least(starts)
             IN  SubSeq(s, i, j - 1) \o RemoveTldrFrom(s, TldrMatchEnd(s, j))

RemoveTldr(s) == RemoveTldrFrom(s, 1)

\* (?m)^ at position i
AtLineStart(s, i) == i = 1 \/ s[i - 1] = "\n"

\* headerRegex (?m)^#+\s*.*\n? matched at position i: the position after the
\* match, 0 when it does not match there.  \s* also consumes line breaks, so
\* a header with nothing after its '#' takes the next line with it.
HeaderMatchEnd(s, i) ==
    IF i <= Len(s) /\ AtLineStart(s, i) /\ s[i] = "#"
    THEN LET a == SkipWhile(s, i, {"#"})
             b == SkipWhile(s, a, ReSpace)
             c == SkipUntil(s, b, {"\n"})
         IN  IF c <= Len(s) THEN c + 1 ELSE c
    ELSE 0

\* headerRegex.ReplaceAllString(response, "")
RECURSIVE RemoveHeadersFrom(_, _)
RemoveHeadersFrom(s, i) ==
    LET starts == { j \in i..Len(s) : HeaderMatchEnd(s, j) > 0 }
    IN  IF starts = {} THEN SubSeq(s, i, Len(s))
        ELSE LET j == Least(starts)
             IN  SubSeq(s, i, j - 1) \o RemoveHeadersFrom(s, HeaderMatchEnd(s, j))

RemoveHeaders(s) == RemoveHeadersFrom(s, 1)

\* strings.ReplaceAll(s, old, new) for a non-empty old: non-overlapping
\* occurrences, left to right
RECURSIVE ReplaceAllFrom(_, _, _, _)
ReplaceAllFrom(s, i, old, new) ==
    LET starts == { j \in i..Len(s) : HasAt(s, old, j) }
    IN  IF starts = {} THEN SubSeq(s, i, Len(s))
        ELSE LET j == Least(starts)
             IN  SubSeq(s, i, j - 1) \o new
                    \o ReplaceAllFrom(s, j + Len(old), old, new)

ReplaceAll(s, old, new) == ReplaceAllFrom(s, 1, old, new)

\* The two punctuation spacing replacements of cleanResponse
FixSpacing(s) ==
    ReplaceAll(ReplaceAll(s, <<".", " ", " ">>, <<".", " ">>),
               <<",", " ", " ">>, <<",", " ">>)

\* The greatest element of a non-empty set of integers
Greatest(S) == CHOOSE m \in S : \A n \in S : m >= n

\* The last position <= i of s whose character is not in set (0 when none)
SkipBackWhile(s, i, set) ==
    Greatest({ j \in 1..i : s[j] \notin set } \cup {0})

\* strings.TrimSpace
TrimSpace(s) ==
    LET a == SkipWhile(s, 1, UnicodeSpace)
        b == SkipBackWhile(s, Len(s), UnicodeSpace)
    IN  IF a > b THEN << >> ELSE SubSeq(s, a, b)

cleanResponse(response) ==
    TrimSpace(FixSpacing(RemoveHeaders(RemoveTldr(response))))

\* ------------------------------------------------------------------------
\* countWords, extractTextFromHTML, the Long-Post Detector
\* ------------------------------------------------------------------------

\* countWords' local inWord when the loop reaches rune i: every rune sets it
\* (a space to false, any other rune to true), and it starts false
InWordAt(text, i) == i > 1 /\ text[i - 1] \notin UnicodeSpace

\* countWords: count++ runs once for every rune that is not a space and is
\* reached with inWord false
countWords(text) ==
    Cardinality({ i \in 1..Len(text) :
                    text[i] \notin UnicodeSpace /\ ~InWordAt(text, i) })

\* The markup elements a status body can hold
Tags == {"<p>", "</p>", "<br>", "<b>", "</b>"}

\* extractTextFromHTML: the text nodes in document order, the tags dropped.
\* (html.Parse fails on a read error only, which a string reader never has.)
extractTextFromHTML(content) == SelectSeq(content, LAMBDA t : t \notin Tags)

LongPostThreshold == 200

\* NeedsTldr with the threshold itself counted as long
NeedsTldr_AtThreshold(content) ==
    /\ countWords(content) >= LongPostThreshold
    /\ ~Contains(ToLower(content), TldrMarker)

\* The condition of checkForLongPost on the extracted text
NeedsTldr(content) ==
    /\ countWords(content) > LongPostThreshold
    /\ ~Contains(ToLower(content), TldrMarker)

\* ------------------------------------------------------------------------
\* Literals
\* ------------------------------------------------------------------------

Apology ==
    << "u", "h", " ", "o", "h", ",", " ", "s", "o", "m", "e", "t", "h",
       "i", "n", "g", " ", "w", "e", "n", "t", " ", "w", "r", "o", "n",
       "g", ".", " ", "c", "a", "n", "'", "t", " ", "s", "u", "m", "m",
       "a", "r", "i", "z", "e", " ", "t", "h", "i", "s", " ", "t", "h",
       "r", "e", "a", "d", ".", "\n" >>

ThreadInstruction ==
    << "W", "r", "i", "t", "e", " ", "a", " ", "T", "L", ";", "D", "R",
       " ", "s", "u", "m", "m", "a", "r", "y", " ", "f", "o", "r", " ",
       "t", "h", "i", "s", " ", "c", "o", "n", "v", "e", "r", "s", "a",
       "t", "i", "o", "n", ".", " ", "R", "e", "p", "l", "y", " ", "w",
       "i", "t", "h", " ", "j", "u", "s", "t", " ", "t", "h", "e", " ",
       "T", "L", ";", "D", "R", " ", "a", "n", "d", " ", "n", "o", "t",
       "h", "i", "n", "g", " ", "e", "l", "s", "e", ":", "\n" >>

PostInstruction ==
    << "W", "r", "i", "t", "e", " ", "a", " ", "T", "L", ";", "D", "R",
       " ", "s", "u", "m", "m", "a", "r", "y", " ", "f", "o", "r", " ",
       "t", "h", "i", "s", " ", "p", "o", "s", "t", ".", " ", "R", "e",
       "f", "e", "r", " ", "t", "o", " ", "t", "h", "e", " ", "O", "r",
       "i", "g", "i", "n", "a", "l", " ", "p", "o", "s", "t", "e", "r",
       " ", "a", "s", " ", "O", "P", ".", " ", "R", "e", "p", "l", "y",
       " ", "w", "i", "t", "h", " ", "j", "u", "s", "t", " ", "t", "h",
       "e", " ", "T", "L", ";", "D", "R", " ", "a", "n", "d", " ", "n",
       "o", "t", "h", "i", "n", "g", " ", "e", "l", "s", "e", ":", "\n" >>

Unsupported ==
    << "u", "n", "s", "u", "p", "p", "o", "r", "t", "e", "d", " ", "L",
       "L", "M", " ", "p", "r", "o", "v", "i", "d", "e", "r", ":", " " >>

\* ResponseLabel without the label
ResponseLabel_NoLabel == << " " >>

\* " TL;DR: " of the reply format "@%s TL;DR: %s"
ResponseLabel == << " ", "T", "L", ";", "D", "R", ":", " " >>

\* "re:" of the HasPrefix test and "re: " that is put in front
RePrefix == << "r", "e", ":" >>

ReLabel == << "r", "e", ":", " " >>

Gemini == << "g", "e", "m", "i", "n", "i" >>

Ollama == << "o", "l", "l", "a", "m", "a" >>

\* os.Getenv("MASTODON_USERNAME")
SelfAcct == << "t", "l", "d", "r" >>

\* ------------------------------------------------------------------------
\* The handlers' pure steps
\* ------------------------------------------------------------------------

\* prompt of summarizeThread
BuildPrompt(thread, isSinglePost) ==
    IF ~isSinglePost THEN ThreadInstruction \o thread
    ELSE PostInstruction \o thread

\* summary of handleMention after the error check: the backend's text, or
\* the apology followed by err.Error()
MentionSummary(res) ==
    IF ~res.ok THEN Apology \o res.text ELSE res.text

\* ComposeResponse with the space at the end of the response taken off
ComposeResponse_Trimmed(acct, summary) ==
    TrimSpace(<<"@">> \o acct \o ResponseLabel \o summary)

\* response := fmt.Sprintf("@%s TL;DR: %s", acct, summary)
ComposeResponse(acct, summary) == <<"@">> \o acct \o ResponseLabel \o summary

\* MentionVisibility without the downgrade of "public"
MentionVisibility_Unchanged(visibility) == visibility

\* visibility of handleMention's reply
MentionVisibility(visibility) ==
    IF visibility = "public" THEN "unlisted" ELSE visibility

\* Visibility of checkForLongPost's reply
LongPostVisibility(visibility) == visibility

\* ReplyContentWarning without the test for a prefix that is there already
ReplyContentWarning_NoTest(spoilerText) ==
    IF spoilerText # << >> THEN ReLabel \o spoilerText ELSE spoilerText

\* contentWarning of both handlers
ReplyContentWarning(spoilerText) ==
    IF spoilerText # << >> /\ ~HasPrefix(spoilerText, RePrefix)
    THEN ReLabel \o spoilerText
    ELSE spoilerText

\* MentionIgnored without the test for the bot's own handle
MentionIgnored_BotOnly(notification) == notification.status.Bot

\* The early return of handleMention
MentionIgnored(notification) ==
    notification.acct = SelfAcct \/ notification.status.Bot

\* SkippedByMain without the Account.Bot tests
SkippedByMain_Never(e) == FALSE

\* The Account.Bot tests of main's switch
SkippedByMain(e) == e.bot

\* fmt.Sprintf("%s: %s", Username, extractTextFromHTML(Content))
ThreadLine(status) ==
    status.Username \o <<":", " ">> \o extractTextFromHTML(status.Content)

\* Prepend putting the line behind the thread
Prepend_AtEnd(line, thread) == thread \o <<line>>

\* append([]string{line}, thread...)
Prepend(line, thread) == <<line>> \o thread

\* strings.Join(thread, "\n\n")
RECURSIVE JoinLines(_)
JoinLines(thread) ==
    IF thread = << >> THEN << >>
    ELSE IF Len(thread) = 1 THEN thread[1]
         ELSE thread[1] \o <<"\n", "\n">> \o JoinLines(Tail(thread))

\* ------------------------------------------------------------------------
\* The environment: accounts, statuses, events, backend results
\* ------------------------------------------------------------------------

\* How many posts the server holds
NumPosts == 3

\* The longest thread a walk collects (a walk round a parent cycle has no
\* end of its own)
MaxThread == 4

NilID == 0

\* A parent the walk has not read yet
Unknown == -1

IDs == 1..NumPosts

Digits == <<"1", "2", "3", "4", "5", "6", "7", "8", "9">>

Alice == << "a", "l" >>

Accts == {SelfAcct, Alice}

AccountIDs == {"100", "101"}

Visibilities == {"public", "unlisted", "private", "direct"}

SpoilerTexts ==
    { << >>,
      << "c", "w" >>,
      << "r", "e", ":", " ", "c", "w" >>,
      << "r", "e", ":", "c", "w" >>,
      << "r", "e", "g" >> }

\* Author and body of post id on the server
PostUser(id) == << "u", Digits[id] >>

PostContent(id) == << "<p>", "c", Digits[id], "</p>" >>

NoStatus ==
    [ID |-> NilID, Acct |-> << >>, Username |-> << >>, Bot |-> FALSE,
     Visibility |-> "", SpoilerText |-> << >>, Content |-> << >>,
     InReplyToID |-> NilID]

\* The status GetStatus returns for id when its parent on the server is r
FetchedStatus(id, r) ==
    [ID |-> id, Acct |-> PostUser(id), Username |-> PostUser(id),
     Bot |-> FALSE, Visibility |-> "public", SpoilerText |-> << >>,
     Content |-> PostContent(id), InReplyToID |-> r]

\* n copies of the one-character word w, a space after each
Words(w, n) == [i \in 1..(2 * n) |-> IF i % 2 = 1 THEN w ELSE " "]

\* What follows the words of a long body
Suffixes ==
    { << >>,
      << "x" >>,
      << "t", "l", ";", "d", "r" >>,
      << "T", "L", ";", "D", "R" >>,
      << "t", "l", ";", "<b>", "d", "r", "</b>" >> }

\* Bodies of new posts: n words around the threshold, then a suffix
UpdateContents ==
    { <<"<p>">> \o Words("w", n) \o sfx \o <<"</p>">> :
        n \in (LongPostThreshold - 1)..(LongPostThreshold + 1),
        sfx \in Suffixes }

\* The post a mention is made in: the newest one
LeafID == NumPosts

\* A mention's status is the mentioning account's post; its author's Bot flag
\* is read separately from the notification's, and is left free here
MentionEvents ==
    { [type |-> "mention", acct |-> a, bot |-> b, acctID |-> "100",
       status |-> [ID |-> LeafID, Acct |-> a, Username |-> PostUser(LeafID),
                   Bot |-> sb, Visibility |-> v, SpoilerText |-> cw,
                   Content |-> PostContent(LeafID), InReplyToID |-> r]] :
        a \in Accts, b \in BOOLEAN, sb \in BOOLEAN,
        v \in Visibilities, cw \in SpoilerTexts, r \in {NilID} \cup IDs }

FollowEvents ==
    { [type |-> "follow", acct |-> a, bot |-> b, acctID |-> i,
       status |-> NoStatus] :
        a \in Accts, b \in BOOLEAN, i \in AccountIDs }

OtherEvents ==
    { [type |-> "favourite", acct |-> a, bot |-> b, acctID |-> "100",
       status |-> NoStatus] :
        a \in Accts, b \in BOOLEAN }

UpdateEvents ==
    { [type |-> "update", acct |-> a, bot |-> b, acctID |-> "100",
       status |-> [ID |-> LeafID, Acct |-> a, Username |-> a, Bot |-> b,
                   Visibility |-> v, SpoilerText |-> cw, Content |-> c,
                   InReplyToID |-> NilID]] :
        a \in Accts, b \in BOOLEAN, v \in Visibilities,
        cw \in SpoilerTexts, c \in UpdateContents }

NoEvent ==
    [type |-> "none", acct |-> << >>, bot |-> FALSE, acctID |-> "",
     status |-> NoStatus]

\* What a backend returns: generated text
OkTexts ==
    { << "s", "." >>,
      << "T", "L", ";", "D", "R", ":", " ", "s", "." >>,
      << "T", "L", ";", "D", "R", ":" >>,
      << "#", " ", "h" >>,
      Words("w", LongPostThreshold + 1) }

\* What a backend returns: err.Error()
ErrTexts ==
    { << "e", "x", "i", "t", " ", "1" >>,
      << "b", "u", "s", "y", ".", " ", " ", "r", "e", "t", "r", "y" >> }

BackendResults ==
    { [ok |-> TRUE, text |-> s] : s \in OkTexts }
        \cup { [ok |-> FALSE, text |-> s] : s \in ErrTexts }

\* config.LLM.Provider: a backend's name, another name, or none (the key
\* is not in config.toml)
Providers == {Gemini, Ollama, << "g", "p", "t" >>, << >>}

\* What summarizeThread returns under provider p: a backend's result, or
\* the error of the default case
SummarizeResults(p) ==
    IF p \in {Gemini, Ollama} THEN BackendResults
    ELSE { [ok |-> FALSE, text |-> Unsupported \o p] }

\* The backend summarizeThread invokes under provider p
BackendOf(p) ==
    IF p = Gemini THEN "generateWithGemini"
    ELSE IF p = Ollama THEN "generateWithOllama" ELSE "none"

NoToot ==
    [Status |-> << >>, InReplyToID |-> NilID, Visibility |-> "",
     SpoilerText |-> << >>]

\* WalkEnds stopping at every status
WalkEnds_Always(status) == TRUE

\* fetchThread's break at a status without parent
WalkEnds(status) == status.InReplyToID = NilID

\* FetchThreadErr handing a failed fetch on to the caller
FetchThreadErr_OnFailure(fetchFailed) == fetchFailed

\* The err fetchThread returns, which handleMention tests: nil, whether or
\* not a fetch failed
FetchThreadErr(fetchFailed) == FALSE

\* Where handleMention is after fetchThread: it has returned, or it is about
\* to call summarizeThread
AfterFetchThread(fetchFailed) ==
    IF FetchThreadErr(fetchFailed) THEN "done" ELSE "summarizeThread"

\* The summaries a handler can put into a reply: what cleanResponse makes of
\* a generated text, or of the apology and an error text
Summaries ==
    { cleanResponse(MentionSummary(res)) :
        res \in UNION { SummarizeResults(p) : p \in Providers } }

\* The bodies the bot can hand to PostStatus
ReplyBodies ==
    { ComposeResponse(a, summary) : a \in Accts, summary \in Summaries }

\* The Content of a status posted with the body given: the server puts the
\* text into a paragraph and a line break in place of a newline
Render(body) ==
    <<"<p>">> \o [i \in 1..Len(body) |->
                    IF body[i] = "\n" THEN "<br>" ELSE body[i]]
             \o <<"</p>">>

\* A reply of the bot, coming back on the user stream as a new post of the
\* bot's own account (flagged as automated or not)
EchoEvents ==
    { [type |-> "update", acct |-> SelfAcct, bot |-> b, acctID |-> "100",
       status |-> [ID |-> LeafID, Acct |-> SelfAcct, Username |-> SelfAcct,
                   Bot |-> b, Visibility |-> v, SpoilerText |-> cw,
                   Content |-> Render(body), InReplyToID |-> 1]] :
        b \in BOOLEAN, v \in Visibilities,
        cw \in {<< >>, << "r", "e", ":", " ", "c", "w" >>},
        body \in ReplyBodies }

\* CallIsFinal with the call made again after an error
CallIsFinal_OnSuccess(ok) == ok

\* Whether the handler returns after PostStatus or AccountFollow: it does,
\* the error is logged only
CallIsFinal(ok) == TRUE

\* HandlerReturned with main going on while the handler is still at work
HandlerReturned_Always(p) == TRUE

\* main calls the handler in its own goroutine and goes on to the next
\* event when the handler has returned
HandlerReturned(p) == p = "done"

\* ------------------------------------------------------------------------
\* State
\* ------------------------------------------------------------------------

VARIABLES
    provider,       \* config.LLM.Provider
    pc,             \* where main is: "loop" at its range statement, "done"
                    \* when the handler has returned, else the outbound
                    \* call the handler is about to make
    event,          \* the event being handled
    server,         \* the parents the walk has read from the server
    thread,         \* fetchThread's thread
    currentStatus,  \* fetchThread's currentStatus
    toot,           \* the mastodon.Toot the handler has composed
    calls,          \* the outbound calls made for event, in order
    response,       \* a text handed to cleanResponse on its own
    cleaned         \* what cleanResponse made of it, pass after pass

botVars == <<provider, pc, event, server, thread, currentStatus, toot, calls>>

textVars == <<response, cleaned>>

vars == <<provider, pc, event, server, thread, currentStatus, toot, calls,
          response, cleaned>>

Call(op, arg, ok, out) == [op |-> op, arg |-> arg, ok |-> ok, out |-> out]

Init ==
    /\ provider \in Providers
    /\ pc = "loop"
    /\ event = NoEvent
    /\ server = [i \in IDs |-> Unknown]
    /\ thread = << >>
    /\ currentStatus = NoStatus
    /\ toot = NoToot
    /\ calls = << >>
    /\ response = << >>
    /\ cleaned = << >>

\* main's range statement yields event e
Fresh(e) ==
    /\ event' = e
    /\ calls' = << >>
    /\ toot' = NoToot
    /\ UNCHANGED <<provider, response, cleaned>>

\* main, case NotificationEvent of type "mention", and handleMention up to
\* its first call of GetStatus (or, for a post without parent, up to the
\* return of fetchThread)
RecvMention ==
    /\ pc = "loop"
    /\ \E e \in MentionEvents :
           /\ Fresh(e)
           /\ IF SkippedByMain(e) \/ MentionIgnored(e)
              THEN /\ pc' = "done"
                   /\ thread' = << >>
                   /\ currentStatus' = NoStatus
                   /\ server' = [i \in IDs |-> Unknown]
              ELSE /\ thread' = Prepend(ThreadLine(e.status), << >>)
                   /\ currentStatus' = e.status
                   /\ server' = [i \in IDs |->
                                   IF i = e.status.ID THEN e.status.InReplyToID
                                   ELSE Unknown]
                   /\ pc' = IF WalkEnds(e.status)
                            THEN AfterFetchThread(FALSE) ELSE "GetStatus"

\* fetchThread: c.GetStatus(ctx, parentID) and the loop up to the next call
GetStatus ==
    /\ pc = "GetStatus"
    /\ Len(thread) < MaxThread
    /\ LET parentID == currentStatus.InReplyToID
       IN  \/ /\ calls' = Append(calls, Call("GetStatus", parentID, FALSE, << >>))
              /\ pc' = AfterFetchThread(TRUE)
              /\ UNCHANGED <<thread, currentStatus, server>>
           \/ \E r \in {NilID} \cup IDs :
                /\ server[parentID] \in {Unknown, r}
                /\ server' = [server EXCEPT ![parentID] = r]
                /\ calls' = Append(calls, Call("GetStatus", parentID, TRUE, << >>))
                /\ currentStatus' = FetchedStatus(parentID, r)
                /\ thread' = Prepend(ThreadLine(FetchedStatus(parentID, r)), thread)
                /\ pc' = IF WalkEnds(FetchedStatus(parentID, r))
                         THEN AfterFetchThread(FALSE) ELSE "GetStatus"
    /\ UNCHANGED <<provider, event, toot>>
    /\ UNCHANGED textVars

\* handleMention: summarizeThread(thread, false), and the reply composed
SummarizeMention ==
    /\ pc = "summarizeThread"
    /\ \E res \in SummarizeResults(provider) :
        LET prompt == BuildPrompt(JoinLines(thread), FALSE)
            summary == cleanResponse(MentionSummary(res))
        IN  /\ calls' = Append(calls,
                    Call("summarizeThread",
                         [prompt |-> prompt, backend |-> BackendOf(provider)],
                         res.ok, res.text))
            /\ toot' = [Status |-> ComposeResponse(event.acct, summary),
                        InReplyToID |-> event.status.ID,
                        Visibility |-> MentionVisibility(event.status.Visibility),
                        SpoilerText |-> ReplyContentWarning(event.status.SpoilerText)]
            /\ pc' = "PostStatus"
    /\ UNCHANGED <<provider, event, server, thread, currentStatus>>
    /\ UNCHANGED textVars

\* handleMention: c.PostStatus; the error is logged only
PostMention ==
    /\ pc = "PostStatus"
    /\ \E ok \in BOOLEAN :
        /\ calls' = Append(calls, Call("PostStatus", toot, ok, << >>))
        /\ pc' = IF CallIsFinal(ok) THEN "done" ELSE "PostStatus"
    /\ UNCHANGED <<provider, event, server, thread, currentStatus, toot>>
    /\ UNCHANGED textVars

\* main, case NotificationEvent of type "follow"
RecvFollow ==
    /\ pc = "loop"
    /\ \E e \in FollowEvents :
           /\ Fresh(e)
           /\ pc' = IF SkippedByMain(e) THEN "done" ELSE "AccountFollow"
           /\ thread' = << >>
           /\ currentStatus' = NoStatus
           /\ server' = [i \in IDs |-> Unknown]

\* handleFollowBack: c.AccountFollow; the error is logged only
AccountFollow ==
    /\ pc = "AccountFollow"
    /\ \E ok \in BOOLEAN :
        /\ calls' = Append(calls, Call("AccountFollow", event.acctID, ok, << >>))
        /\ pc' = IF CallIsFinal(ok) THEN "done" ELSE "AccountFollow"
    /\ UNCHANGED <<provider, event, server, thread, currentStatus, toot>>
    /\ UNCHANGED textVars

\* main, a notification of another type: no branch of the switch takes it
RecvOther ==
    /\ pc = "loop"
    /\ \E e \in OtherEvents :
           /\ Fresh(e)
           /\ pc' = "done"
           /\ thread' = << >>
           /\ currentStatus' = NoStatus
           /\ server' = [i \in IDs |-> Unknown]

\* main, case UpdateEvent, and checkForLongPost up to summarizeThread
RecvUpdate ==
    /\ pc = "loop"
    /\ \E e \in UpdateEvents :
           /\ Fresh(e)
           /\ pc' = IF ~SkippedByMain(e)
                       /\ NeedsTldr(extractTextFromHTML(e.status.Content))
                    THEN "summarizeThread_lp" ELSE "done"
           /\ thread' = << >>
           /\ currentStatus' = NoStatus
           /\ server' = [i \in IDs |-> Unknown]

\* main, case UpdateEvent, for a status that is a reply of the bot itself
RecvEcho ==
    /\ pc = "loop"
    /\ \E e \in EchoEvents :
           /\ Fresh(e)
           /\ pc' = IF ~SkippedByMain(e)
                       /\ NeedsTldr(extractTextFromHTML(e.status.Content))
                    THEN "summarizeThread_lp" ELSE "done"
           /\ thread' = << >>
           /\ currentStatus' = NoStatus
           /\ server' = [i \in IDs |-> Unknown]

\* LongPostAborts going on after an error
LongPostAborts_Never(res) == FALSE

\* Whether checkForLongPost returns after summarizeThread gave res
LongPostAborts(res) == ~res.ok

\* checkForLongPost: summarizeThread(content, true), and the reply composed
SummarizeLongPost ==
    /\ pc = "summarizeThread_lp"
    /\ \E res \in SummarizeResults(provider) :
        LET content == extractTextFromHTML(event.status.Content)
            prompt == BuildPrompt(content, TRUE)
            summary == cleanResponse(res.text)
        IN  /\ calls' = Append(calls,
                    Call("summarizeThread",
                         [prompt |-> prompt, backend |-> BackendOf(provider)],
                         res.ok, res.text))
            /\ IF LongPostAborts(res)
               THEN pc' = "done" /\ UNCHANGED toot
               ELSE /\ toot' = [Status |-> ComposeResponse(event.status.Acct, summary),
                                InReplyToID |-> event.status.ID,
                                Visibility |-> LongPostVisibility(event.status.Visibility),
                                SpoilerText |-> ReplyContentWarning(event.status.SpoilerText)]
                    /\ pc' = "PostStatus_lp"
    /\ UNCHANGED <<provider, event, server, thread, currentStatus>>
    /\ UNCHANGED textVars

\* checkForLongPost: c.PostStatus; the error is logged only
PostLongPost ==
    /\ pc = "PostStatus_lp"
    /\ \E ok \in BOOLEAN :
        /\ calls' = Append(calls, Call("PostStatus", toot, ok, << >>))
        /\ pc' = IF CallIsFinal(ok) THEN "done" ELSE "PostStatus_lp"
    /\ UNCHANGED <<provider, event, server, thread, currentStatus, toot>>
    /\ UNCHANGED textVars

\* The handler has returned: main's loop goes back to its range statement,
\* and nothing of the event is kept
Return ==
    /\ HandlerReturned(pc)
    /\ pc' = "loop"
    /\ event' = NoEvent
    /\ server' = [i \in IDs |-> Unknown]
    /\ thread' = << >>
    /\ currentStatus' = NoStatus
    /\ toot' = NoToot
    /\ calls' = << >>
    /\ UNCHANGED <<provider, response, cleaned>>

Next ==
    \/ RecvMention
    \/ GetStatus
    \/ SummarizeMention
    \/ PostMention
    \/ RecvFollow
    \/ AccountFollow
    \/ RecvOther
    \/ RecvUpdate
    \/ RecvEcho
    \/ SummarizeLongPost
    \/ PostLongPost
    \/ Return

Spec == Init /\ [][Next]_vars

\* ------------------------------------------------------------------------
\* cleanResponse on its own
\* ------------------------------------------------------------------------

\* How many pieces a text is put together from
MaxFrags == 4

\* How often cleanResponse is applied to a text
MaxPasses == 2

Fragments ==
    { << "t", "l", ";" >>,
      << "d", "r" >>,
      << "T", "L", ";", "D", "R", ":" >>,
      << " " >>,
      << "\n" >>,
      << "#" >>,
      << "." >>,
      << "," >>,
      << "a" >> }

\* The texts of at most n pieces
RECURSIVE Texts(_)
Texts(n) ==
    IF n = 0 THEN { << >> }
    ELSE LET shorter == Texts(n - 1)
         IN  shorter \cup { f \o s : f \in Fragments, s \in shorter }

InitClean ==
    /\ provider = Gemini
    /\ pc = "loop"
    /\ event = NoEvent
    /\ server = [i \in IDs |-> Unknown]
    /\ thread = << >>
    /\ currentStatus = NoStatus
    /\ toot = NoToot
    /\ calls = << >>
    /\ response \in Texts(MaxFrags)
    /\ cleaned = << >>

\* response = cleanResponse(response), on the text of the pass before
Clean ==
    /\ Len(cleaned) < MaxPasses
    /\ cleaned' = Append(cleaned,
                     cleanResponse(IF cleaned = << >> THEN response
                                   ELSE cleaned[Len(cleaned)]))
    /\ UNCHANGED response
    /\ UNCHANGED botVars

NextClean == Clean

SpecClean == InitClean /\ [][NextClean]_vars

\* ------------------------------------------------------------------------
\* Properties
\* ------------------------------------------------------------------------

PostStatusCalls == SelectSeq(calls, LAMBDA c : c.op = "PostStatus")

SummarizeCalls == SelectSeq(calls, LAMBDA c : c.op = "summarizeThread")

GetStatusCalls == SelectSeq(calls, LAMBDA c : c.op = "GetStatus")

FollowCalls == SelectSeq(calls, LAMBDA c : c.op = "AccountFollow")

\* The event is a mention that neither main nor handleMention drops
HandledMention ==
    /\ event.type = "mention"
    /\ ~event.bot
    /\ event.acct # SelfAcct
    /\ ~event.status.Bot

\* summarizeThread returned an error for the event
BackendFailed == \E i \in 1..Len(calls) :
    calls[i].op = "summarizeThread" /\ ~calls[i].ok

\* C1: every reply handed to PostStatus, on the mention path and on the
\* long-post path, has a visibility other than "public".
C1_NoPublicReply ==
    \A i \in 1..Len(calls) :
        calls[i].op = "PostStatus" => calls[i].arg.Visibility # "public"

\* C2: on the mention path the reply's visibility is "unlisted" when the
\* mentioned status is "public", and the mentioned status's visibility
\* otherwise.
C2_MentionVisibility ==
    event.type = "mention" =>
        \A i \in 1..Len(calls) :
            calls[i].op = "PostStatus" =>
                calls[i].arg.Visibility =
                    CASE event.status.Visibility = "public" -> "unlisted"
                      [] event.status.Visibility = "unlisted" -> "unlisted"
                      [] event.status.Visibility = "private" -> "private"
                      [] event.status.Visibility = "direct" -> "direct"

C2_Witness ==
    /\ event.type = "mention"
    /\ event.status.Visibility = "public"
    /\ Len(PostStatusCalls) = 1
    /\ PostStatusCalls[1].arg.Visibility = "unlisted"

\* The content warning the spec's rule gives: "re: " is put in front unless
\* the original is empty or starts with "re: "
SpecContentWarning(cw) ==
    IF cw = << >> THEN << >>
    ELSE IF Len(cw) >= 4 /\ SubSeq(cw, 1, 4) = <<"r", "e", ":", " ">>
         THEN cw
         ELSE <<"r", "e", ":", " ">> \o cw

\* The content warning the code gives: "re: " is put in front unless the
\* original is empty or starts with "re:"
CodeContentWarning(cw) ==
    IF cw = << >> THEN << >>
    ELSE IF Len(cw) >= 3 /\ SubSeq(cw, 1, 3) = <<"r", "e", ":">>
         THEN cw
         ELSE <<"r", "e", ":", " ">> \o cw

\* C3 as stated: every reply's content warning is empty for an empty
\* original, the original when it starts with "re: ", and "re: " followed by
\* the original otherwise (so "re:x" is prefixed).
C3_ContentWarningAsStated ==
    \A i \in 1..Len(calls) :
        calls[i].op = "PostStatus" =>
            calls[i].arg.SpoilerText = SpecContentWarning(event.status.SpoilerText)

\* C3 as amended: every reply's content warning is empty for an empty
\* original, the original when it starts with "re:" (a space need not
\* follow), and "re: " followed by the original otherwise.
C3_ContentWarning ==
    \A i \in 1..Len(calls) :
        calls[i].op = "PostStatus" =>
            calls[i].arg.SpoilerText = CodeContentWarning(event.status.SpoilerText)

C3_Witness ==
    /\ event.status.SpoilerText = <<"r", "e", ":", "c", "w">>
    /\ Len(PostStatusCalls) = 1
    /\ PostStatusCalls[1].arg.SpoilerText = <<"r", "e", ":", "c", "w">>

\* C4: a mention from an account that is neither automated nor the bot
\* itself, whose generation fails, ends with exactly one reply, and the
\* reply's body contains the error text of the failure.
C4_ApologyCarriesError ==
    (HandledMention /\ pc = "done" /\ BackendFailed) =>
        /\ Len(PostStatusCalls) = 1
        /\ Contains(PostStatusCalls[1].arg.Status, SummarizeCalls[1].out)

\* C5: when generation fails on the long-post path the handler returns with
\* no call of PostStatus and no reply composed, and main is back at its loop.
C5_LongPostFailureSilent ==
    (event.type = "update" /\ BackendFailed) =>
        /\ pc = "done"
        /\ PostStatusCalls = << >>
        /\ toot = NoToot
        /\ Len(calls) = 1

C5_Witness ==
    /\ event.type = "update"
    /\ BackendFailed
    /\ pc = "done"
    /\ PostStatusCalls = << >>

C7_IgnoredMention ==
    (event.type = "mention" /\ (event.bot \/ event.acct = SelfAcct)) =>
        /\ calls = << >>
        /\ pc = "done"
        /\ thread = << >>
        /\ toot = NoToot

C7_Witness ==
    /\ event.type = "mention"
    /\ event.acct = SelfAcct
    /\ ~event.bot
    /\ ~event.status.Bot
    /\ pc = "done"
    /\ calls = << >>

\* The line of post id in a transcript
ExpectedLine(id) == <<"u", Digits[id], ":", " ", "c", Digits[id]>>

Reverse(s) == [i \in 1..Len(s) |-> s[Len(s) + 1 - i]]

\* The posts from id upwards along the parents read so far, n at most
RECURSIVE PathFrom(_, _)
PathFrom(id, n) ==
    IF n = 0 \/ id \notin IDs THEN << >>
    ELSE <<id>> \o PathFrom(server[id], n - 1)

\* The parents read so far do not lead back to a post of the chain
Acyclic ==
    LET path == PathFrom(LeafID, NumPosts + 1)
    IN  Cardinality({ path[i] : i \in 1..Len(path) }) = Len(path)

\* C8: the transcript is the leaf's line and one line for each ancestor
\* fetched before the first failed fetch, root first; every fetch is for the
\* parent of the post before it, nothing is fetched after a failure, the walk
\* ends only at a post without parent or at a failure, and on an acyclic
\* chain no post is there twice.
C8_Transcript ==
    HandledMention =>
        LET gets == GetStatusCalls
            n == Len(gets)
            chain == Reverse(<<LeafID>> \o [i \in 1..Len(SelectSeq(gets, LAMBDA c : c.ok)) |->
                                              SelectSeq(gets, LAMBDA c : c.ok)[i].arg])
        IN  /\ thread = [i \in 1..Len(chain) |-> ExpectedLine(chain[i])]
            /\ \A i \in 1..n :
                  gets[i].arg = IF i = 1 THEN event.status.InReplyToID
                                ELSE server[gets[i - 1].arg]
            /\ \A i \in 1..(n - 1) : gets[i].ok
            /\ pc \in {"summarizeThread", "PostStatus", "done"} =>
                  \/ n > 0 /\ ~gets[n].ok
                  \/ server[chain[1]] = NilID
            /\ Acyclic =>
                  Cardinality({ chain[i] : i \in 1..Len(chain) }) = Len(chain)

C8_Witness ==
    /\ HandledMention
    /\ pc = "done"
    /\ thread = <<ExpectedLine(1), ExpectedLine(2), ExpectedLine(LeafID)>>
    /\ LeafID = 3

\* The number of maximal runs of non-whitespace characters
WordRuns(text) ==
    Cardinality({ i \in 1..Len(text) :
                    /\ text[i] \notin UnicodeSpace
                    /\ i = Len(text) \/ text[i + 1] \in UnicodeSpace })

\* text holds "tl;dr" in some mix of cases
HasMarker(text) ==
    \E i \in 1..Len(text) :
        /\ i + 4 <= Len(text)
        /\ text[i] \in {"t", "T"}
        /\ text[i + 1] \in {"l", "L"}
        /\ text[i + 2] = ";"
        /\ text[i + 3] \in {"d", "D"}
        /\ text[i + 4] \in {"r", "R"}

\* A new post that calls for a TL;DR: its author is not automated, its text
\* has more than 200 words and no "tl;dr"
WantsTldr ==
    LET text == SelectSeq(event.status.Content, LAMBDA t : t \notin Tags)
    IN  /\ ~event.status.Bot
        /\ WordRuns(text) > 200
        /\ ~HasMarker(text)

\* C9: for a new post summarizeThread is called exactly when the author is
\* not automated, the text has more than 200 words and holds no "tl;dr" in
\* any case; otherwise nothing is called and nothing is posted.
C9_LongPostGate ==
    event.type = "update" =>
        IF WantsTldr
        THEN pc = "summarizeThread_lp" \/ Len(SummarizeCalls) = 1
        ELSE pc = "done" /\ calls = << >>

C9_Witness ==
    /\ event.type = "update"
    /\ WordRuns(SelectSeq(event.status.Content, LAMBDA t : t \notin Tags)) = 201
    /\ Len(SummarizeCalls) = 1

\* C10: cleanResponse is idempotent: a second pass leaves the result of the
\* first as it is.
C10_Idempotent ==
    Len(cleaned) >= 2 => cleaned[2] = cleaned[1]

\* C11: what cleanResponse returns holds no "tl;dr" in any mix of cases,
\* wherever the label stood in the text it was given.
C11_NoLabelLeft ==
    Len(cleaned) >= 1 => ~HasMarker(cleaned[1])

\* The posts of the thread, root first: the leaf and the ancestors fetched
FetchedChain ==
    LET got == SelectSeq(GetStatusCalls, LAMBDA c : c.ok)
    IN  Reverse(<<LeafID>> \o [i \in 1..Len(got) |-> got[i].arg])

\* The transcript of a chain of posts: their lines, a blank line between
RECURSIVE Transcript(_)
Transcript(chain) ==
    IF Len(chain) = 1 THEN ExpectedLine(chain[1])
    ELSE ExpectedLine(chain[1]) \o <<"\n", "\n">> \o Transcript(Tail(chain))

\* A fetch of an ancestor failed for the event
FetchFailed == \E i \in 1..Len(calls) :
    calls[i].op = "GetStatus" /\ ~calls[i].ok

\* C12: on the mention path a failed fetch of an ancestor, at any depth,
\* ends the walk and nothing else: the failed fetch is the last one, the
\* handler goes on to summarizeThread with the transcript of the posts it
\* has (fetchThread returns no error), calls it exactly once and calls
\* PostStatus exactly once.
C12_FailedFetchStillReplies ==
    (HandledMention /\ FetchFailed) =>
        /\ \A i \in 1..Len(GetStatusCalls) :
              GetStatusCalls[i].ok <=> i < Len(GetStatusCalls)
        /\ pc \in {"summarizeThread", "PostStatus", "done"}
        /\ Len(SummarizeCalls) = IF pc = "summarizeThread" THEN 0 ELSE 1
        /\ Len(PostStatusCalls) = IF pc = "done" THEN 1 ELSE 0
        /\ \A i \in 1..Len(SummarizeCalls) :
              SummarizeCalls[i].arg.prompt =
                  ThreadInstruction \o Transcript(FetchedChain)

C12_Witness ==
    /\ HandledMention
    /\ pc = "done"
    /\ Len(GetStatusCalls) = 2
    /\ GetStatusCalls[1].ok
    /\ ~GetStatusCalls[2].ok
    /\ Len(SummarizeCalls) = 1
    /\ Len(PostStatusCalls) = 1
    /\ PostStatusCalls[1].arg.InReplyToID = LeafID

\* Every fetch of an ancestor made for the event succeeded
AllFetchesOk == \A i \in 1..Len(calls) :
    calls[i].op = "GetStatus" => calls[i].ok

\* fetchThread has returned
WalkOver == pc \in {"summarizeThread", "PostStatus", "done"}

\* The parents read so far lead back to a post of the chain, and no fetch
\* has failed
WalkInCycle == HandledMention /\ ~Acyclic /\ AllFetchesOk

\* In every state of a mention's handling: the walk is over exactly when a
\* fetch has failed or the post it stands at has no parent; on an acyclic
\* chain no id is fetched twice and there are no more fetches than the leaf
\* can have ancestors; in a cycle with no failed fetch the walk is not over,
\* and nothing has been generated or posted
C13_WalkState ==
    HandledMention =>
        /\ WalkOver <=> (FetchFailed \/ currentStatus.InReplyToID = NilID)
        /\ Acyclic =>
              /\ Len(GetStatusCalls) <= NumPosts - 1
              /\ \A i, j \in 1..Len(GetStatusCalls) :
                    GetStatusCalls[i].arg = GetStatusCalls[j].arg => i = j
        /\ (~Acyclic /\ AllFetchesOk) =>
              /\ pc = "GetStatus"
              /\ SummarizeCalls = << >>
              /\ PostStatusCalls = << >>

\* C13: the walk ends exactly when it reaches a post without parent or a
\* fetch fails; on an acyclic chain it makes at most one fetch for each
\* ancestor; and a walk in a cycle whose fetches all succeed takes no step
\* but a further fetch for the same mention, so it never ends, no reply is
\* posted and no later event is taken.
C13_WalkEnds ==
    /\ []C13_WalkState
    /\ [][WalkInCycle =>
            /\ event' = event
            /\ Len(calls') = Len(calls) + 1
            /\ calls'[Len(calls')].op = "GetStatus"
            /\ calls'[Len(calls')].ok => WalkInCycle']_vars

C13_Witness ==
    /\ WalkInCycle
    /\ pc = "GetStatus"
    /\ Len(GetStatusCalls) = MaxThread - 1
    /\ \E i, j \in 1..Len(GetStatusCalls) :
          i # j /\ GetStatusCalls[i].arg = GetStatusCalls[j].arg

\* C14: nothing is tried again: for one event summarizeThread, PostStatus
\* and AccountFollow are each called once at most, and on an acyclic chain
\* no ancestor is fetched twice; a call of PostStatus or AccountFollow,
\* failed or not, is the last call made for the event, the handler has
\* returned after it, and main can go back to its loop for the next event.
C14_NoRetries ==
    /\ Len(SummarizeCalls) <= 1
    /\ Len(PostStatusCalls) <= 1
    /\ Len(FollowCalls) <= 1
    /\ (HandledMention /\ Acyclic) =>
          Cardinality({ GetStatusCalls[i].arg : i \in 1..Len(GetStatusCalls) })
              = Len(GetStatusCalls)
    /\ \A i \in 1..Len(calls) :
          calls[i].op \in {"PostStatus", "AccountFollow"} =>
              /\ i = Len(calls)
              /\ pc = "done"
              /\ ENABLED Return

C14_Witness ==
    /\ event.type = "mention"
    /\ pc = "done"
    /\ Len(calls) = 4
    /\ calls[1].op = "GetStatus"
    /\ calls[2].op = "GetStatus"
    /\ calls[3].op = "summarizeThread"
    /\ calls[4].op = "PostStatus"
    /\ ~calls[4].ok

C16_UnsupportedProvider ==
    provider \notin {Gemini, Ollama} =>
        /\ \A i \in 1..Len(SummarizeCalls) :
              /\ ~SummarizeCalls[i].ok
              /\ SummarizeCalls[i].arg.backend = "none"
              /\ SummarizeCalls[i].out = Unsupported \o provider
        /\ (HandledMention /\ pc = "done") =>
              /\ Len(SummarizeCalls) = 1
              /\ Len(PostStatusCalls) = 1
              /\ Contains(PostStatusCalls[1].arg.Status,
                          <<"u", "h", " ", "o", "h">>)
              /\ Contains(PostStatusCalls[1].arg.Status, SummarizeCalls[1].out)
        /\ event.type = "update" => PostStatusCalls = << >>

\* A generated text that is a "TL;DR:" label and nothing else, or one
\* header line and nothing else
OnlyLabelOrHeader(text) ==
    \/ text = <<"T", "L", ";", "D", "R", ":">>
    \/ /\ Len(text) >= 1
       /\ text[1] = "#"
       /\ \A i \in 1..Len(text) : text[i] # "\n"

\* The account a reply to the event is addressed to
Addressee ==
    IF event.type = "mention" THEN event.acct ELSE event.status.Acct

\* C17: when the backend succeeds with a text of which the sanitizer leaves
\* nothing, a reply is composed all the same, with the body
\* "@<account> TL;DR: " and nothing after it, and PostStatus is called with
\* it exactly once, for a mention and for a new post alike.
C17_EmptySummaryPosted ==
    \A i \in 1..Len(calls) :
        (/\ calls[i].op = "summarizeThread"
         /\ calls[i].ok
         /\ OnlyLabelOrHeader(calls[i].out)) =>
            /\ event.type \in {"mention", "update"}
            /\ pc \in {"PostStatus", "PostStatus_lp", "done"}
            /\ toot.Status =
                  <<"@">> \o Addressee \o <<" ", "T", "L", ";", "D", "R", ":", " ">>
            /\ Len(PostStatusCalls) = IF pc = "done" THEN 1 ELSE 0
            /\ \A j \in 1..Len(PostStatusCalls) :
                  PostStatusCalls[j].arg.Status = toot.Status

C17_Witness ==
    /\ event.type = "update"
    /\ pc = "done"
    /\ Len(calls) = 2
    /\ calls[1].ok
    /\ calls[1].out = <<"#", " ", "h">>
    /\ calls[2].op = "PostStatus"
    /\ calls[2].arg.Status =
          <<"@", "a", "l", " ", "T", "L", ";", "D", "R", ":", " ">>

\* The event is a new post whose body is one of the bot's replies
IsEcho ==
    /\ event.type = "update"
    /\ \E a \in Accts :
          LET text == SelectSeq(event.status.Content, LAMBDA c : c \notin Tags)
              head == <<"@">> \o a \o <<" ", "T", "L", ";", "D", "R", ":", " ">>
          IN  /\ Len(text) >= Len(head)
              /\ SubSeq(text, 1, Len(head)) = head

\* C18: every body handed to PostStatus is "@<account> TL;DR: <text>", so it
\* holds the label; when a body of that form comes back as a new post,
\* whether or not its account is flagged as automated and however many
\* words it has, summarizeThread is not called and nothing is posted.
C18_NoSelfTrigger ==
    /\ \A i \in 1..Len(calls) :
          calls[i].op = "PostStatus" =>
              /\ HasMarker(calls[i].arg.Status)
              /\ SubSeq(calls[i].arg.Status, 1, Len(Addressee) + 9) =
                    <<"@">> \o Addressee
                        \o <<" ", "T", "L", ";", "D", "R", ":", " ">>
    /\ IsEcho => (pc = "done" /\ calls = << >> /\ toot = NoToot)

C18_Witness ==
    /\ IsEcho
    /\ ~event.status.Bot
    /\ event.status.Acct = SelfAcct
    /\ WordRuns(SelectSeq(event.status.Content, LAMBDA c : c \notin Tags)) > 200
    /\ pc = "done"
    /\ calls = << >>

====
